---------------------------- MODULE Spec2Model ----------------------------
(***************************************************************************)
(* A model of the image pipeline of src/server_image.py (download, resize, *)
(* grayscale, dither, pack) and of the interactive print loop of           *)
(* src/main.py.  Each function is modelled by what its statements do; the  *)
(* calls into Pillow and requests are modelled by what those libraries do  *)
(* for the arguments the code passes.                                      *)
(***************************************************************************)
EXTENDS Integers, Sequences, FiniteSets, TLC

VARIABLES
  \* resize_image
  rs_pc, rs_size, rs_target_width, rs_target_height, rs_result,
  \* to_grayscale, the ditherers and pack_to_pbm
  im_stage, im_src, im_gray, im_bilevel, im_out, im_call,
  \* download_image
  dl_pc, dl_url, dl_response, dl_body, dl_trace, dl_result,
  \* the print loop of main()
  mn_pc, current_font_size, current_padding, mn_text, mn_event, mn_message

rsVars == <<rs_pc, rs_size, rs_target_width, rs_target_height, rs_result>>
imVars == <<im_stage, im_src, im_gray, im_bilevel, im_out, im_call>>
dlVars == <<dl_pc, dl_url, dl_response, dl_body, dl_trace, dl_result>>
mnVars == <<mn_pc, current_font_size, current_padding, mn_text, mn_event, mn_message>>
vars == <<rsVars, imVars, dlVars, mnVars>>

(***************************************************************************)
(* Python floats are IEEE 754 binary64.  A finite non-zero double is       *)
(* modelled exactly as [sign, e, m]: m is its 53-bit significand, written  *)
(* most significant first as one leading 1 and four limbs of LimbBits      *)
(* bits, and e is the binary exponent of the leading bit.  Division and    *)
(* multiplication round to nearest, ties to even, as the hardware does.    *)
(***************************************************************************)
LimbBits == 13
MantLimbs == 4
LimbBase == 2^LimbBits
MantBits == MantLimbs * LimbBits + 1

Abs(n) == IF n < 0 THEN -n ELSE n
Sign(n) == IF n < 0 THEN -1 ELSE 1
Front(s) == SubSeq(s, 1, Len(s) - 1)

FloatZero == [sign |-> 1, e |-> 0, m |-> <<>>]

\* The exponent e with 2^e <= a/b < 2^(e+1), for a, b > 0.
RECURSIVE ExpOf(_, _)
ExpOf(a, b) == IF a >= 2 * b THEN ExpOf(a, 2 * b) + 1
               ELSE IF a < b THEN ExpOf(2 * a, b) - 1
               ELSE 0

\* The quotient limbs of (rem, limbs) / d by long division, 0 <= rem < d.
RECURSIVE DivLimbs(_, _, _)
DivLimbs(limbs, d, rem) ==
  IF limbs = <<>> THEN <<>>
  ELSE <<(rem * LimbBase + limbs[1]) \div d>>
         \o DivLimbs(Tail(limbs), d, (rem * LimbBase + limbs[1]) % d)

\* The remainder of that division.
RECURSIVE ModLimbs(_, _, _)
ModLimbs(limbs, d, rem) ==
  IF limbs = <<>> THEN rem
  ELSE ModLimbs(Tail(limbs), d, (rem * LimbBase + limbs[1]) % d)

\* limbs * h + cin, the carry out of the top limb kept in the top limb.
RECURSIVE MulLimbs(_, _, _)
MulLimbs(limbs, h, cin) ==
  IF Len(limbs) = 1 THEN <<limbs[1] * h + cin>>
  ELSE MulLimbs(Front(limbs), h, (limbs[Len(limbs)] * h + cin) \div LimbBase)
         \o <<(limbs[Len(limbs)] * h + cin) % LimbBase>>

\* limbs + 1, the carry out of the top limb kept in the top limb.
RECURSIVE IncLimbs(_)
IncLimbs(limbs) ==
  IF Len(limbs) = 1 THEN <<limbs[1] + 1>>
  ELSE IF limbs[Len(limbs)] + 1 < LimbBase
       THEN Front(limbs) \o <<limbs[Len(limbs)] + 1>>
       ELSE IncLimbs(Front(limbs)) \o <<0>>

RECURSIVE LimbsToNat(_)
LimbsToNat(limbs) ==
  IF limbs = <<>> THEN 0
  ELSE LimbsToNat(Front(limbs)) * LimbBase + limbs[Len(limbs)]

\* Round the exact value (q + rem/d) * 2^(e - 52) to nearest, ties to even;
\* q is a 53-bit significand and 0 <= rem < d.
RoundNearestEven(sign, e, q, rem, d) ==
  IF 2 * rem > d \/ (2 * rem = d /\ q[Len(q)] % 2 = 1)
  THEN IF IncLimbs(q)[1] = 2
       THEN [sign |-> sign, e |-> e + 1, m |-> <<1>> \o [i \in 1..MantLimbs |-> 0]]
       ELSE [sign |-> sign, e |-> e, m |-> IncLimbs(q)]
  ELSE [sign |-> sign, e |-> e, m |-> q]

\* The operands of a division scaled so that 1 <= num/den < 2.
ScaledNum(a, b) == IF ExpOf(a, b) < 0 THEN a * 2^(-ExpOf(a, b)) ELSE a
ScaledDen(a, b) == IF ExpOf(a, b) > 0 THEN b * 2^ExpOf(a, b) ELSE b

\* float(a) / float(b) for integers a and b > 0 (both exactly representable).
FloatDiv(a, b) ==
  IF a = 0 THEN FloatZero
  ELSE LET num  == <<ScaledNum(Abs(a), b)>> \o [i \in 1..MantLimbs |-> 0]
           den  == ScaledDen(Abs(a), b)
       IN  RoundNearestEven(Sign(a), ExpOf(Abs(a), b),
                            DivLimbs(num, den, 0), ModLimbs(num, den, 0), den)

\* float(h) * p for a natural h (exactly representable) and a double p.
FloatMulNat(h, p) ==
  IF h = 0 \/ p.m = <<>> THEN FloatZero
  ELSE LET prod == MulLimbs(p.m, h, 0)
           s    == ExpOf(prod[1], 1)
       IN  RoundNearestEven(p.sign, p.e + s,
                            DivLimbs(prod, 2^s, 0), ModLimbs(prod, 2^s, 0), 2^s)

\* int(x) of a double x below 2^31: truncation toward zero.
FloatToInt(x) ==
  IF x.m = <<>> \/ x.e < 0 THEN 0
  ELSE LET drop == (MantBits - 1) - x.e
           keep == SubSeq(x.m, 1, Len(x.m) - drop \div LimbBits)
       IN  x.sign * LimbsToNat(DivLimbs(keep, 2^(drop % LimbBits), 0))

(***************************************************************************)
(* resize_image (src/server_image.py 38-47)                                *)
(***************************************************************************)
MaxDim == 12
SrcDims == (1..MaxDim) \cup {55, 500, 1000}
DefaultTargetWidth == 384
TargetWidths == {-2, -1, 0, 1, 2, 3, 7, 100, DefaultTargetWidth}

\* A variant that rounds the exact quotient to nearest instead of truncating
\* the double product.
TargetHeightRounded(size, target_width) ==
  (2 * size[2] * target_width + size[1]) \div (2 * size[1])

\* lines 43-44: width_percent and target_height.
TargetHeight(size, target_width) ==
  LET width_percent == FloatDiv(target_width, size[1])
  IN  FloatToInt(FloatMulNat(size[2], width_percent))

\* Image.resize (line 47): Pillow refuses a size with a side < 1
\* ("height and width must be > 0"); otherwise the result has that size.
PillowResizeOk(w, h) == w >= 1 /\ h >= 1


\* lines 43-44
ResizeCompute ==
  /\ rs_pc = "start"
  /\ rs_target_height' = TargetHeight(rs_size, rs_target_width)
  /\ rs_pc' = "computed"
  /\ UNCHANGED <<rs_size, rs_target_width, rs_result>>
  /\ UNCHANGED <<imVars, dlVars, mnVars>>

\* line 47, the resize succeeds
ResizeReturn ==
  /\ rs_pc = "computed"
  /\ PillowResizeOk(rs_target_width, rs_target_height)
  /\ rs_result' = <<rs_target_width, rs_target_height>>
  /\ rs_pc' = "returned"
  /\ UNCHANGED <<rs_size, rs_target_width, rs_target_height>>
  /\ UNCHANGED <<imVars, dlVars, mnVars>>

\* line 47, Pillow raises ValueError
ResizeRaise ==
  /\ rs_pc = "computed"
  /\ ~PillowResizeOk(rs_target_width, rs_target_height)
  /\ rs_pc' = "raised"
  /\ UNCHANGED <<rs_size, rs_target_width, rs_target_height, rs_result>>
  /\ UNCHANGED <<imVars, dlVars, mnVars>>


RsNext == ResizeCompute \/ ResizeReturn \/ ResizeRaise


(***************************************************************************)
(* Images.  An image is [mode, w, h, px]; px[y][x] is the pixel of row y   *)
(* and column x (both from 1): <<r, g, b, a>> in mode "RGBA", a value      *)
(* 0..255 in mode "L", and 0 or 255 in mode "1" (Pillow stores a bilevel   *)
(* pixel as 0 = black or 255 = white).                                     *)
(***************************************************************************)
MaxW == 10
MaxH == 2

NoImage == [mode |-> "none", w |-> 0, h |-> 0, px |-> <<>>]

TwoTone(mode, w, h, c1, c2) ==
  [mode |-> mode, w |-> w, h |-> h,
   px |-> [y \in 1..h |-> [x \in 1..w |-> IF (x + y) % 2 = 0 THEN c1 ELSE c2]]]

White == <<255, 255, 255, 255>>
Black == <<0, 0, 0, 255>>
Palette == {White, Black, <<255, 0, 0, 255>>, <<128, 128, 128, 255>>,
            <<0, 0, 0, 0>>, <<0, 0, 0, 128>>}
GrayLevels == {0, 100, 127, 128, 255}

Sizes == (1..MaxW) \X (1..MaxH)
Sources == {TwoTone("RGBA", s[1], s[2], c1, c2) : s \in Sizes, c1 \in Palette, c2 \in Palette}
RastersOf(w, h) == {TwoTone("L", w, h, c1, c2) : c1 \in GrayLevels, c2 \in GrayLevels}
Rasters == UNION {RastersOf(s[1], s[2]) : s \in Sizes}

(***************************************************************************)
(* to_grayscale (src/server_image.py 49-75)                                *)
(***************************************************************************)
DefaultBrightness == 127
NeutralBrightness == 128
Brightnesses == {0, DefaultBrightness, NeutralBrightness, 255}

\* Pillow's SHIFTFORDIV255 and its integer alpha_composite of one channel
\* over an opaque background (7 bits of extra precision).
ShiftForDiv255(a) == ((a \div 256) + a) \div 256

CompositeChannel(src, dst, alpha) ==
  LET coef1 == (alpha * 255 * 255 * 128) \div 65025
      coef2 == 255 * 128 - coef1
  IN  ShiftForDiv255(src * coef1 + dst * coef2 + 128 * 128) \div 128

\* lines 58-60: Image.alpha_composite(background, img), background opaque white.
AlphaCompositeOverWhite(p) ==
  IF p[4] = 0 THEN White
  ELSE <<CompositeChannel(p[1], 255, p[4]), CompositeChannel(p[2], 255, p[4]),
         CompositeChannel(p[3], 255, p[4]), 255>>

\* line 62: convert("L"), ITU-R 601-2 luma in 16-bit fixed point; alpha is dropped.
Luma(p) == (p[1] * 19595 + p[2] * 38470 + p[3] * 7471 + 32768) \div 65536

\* lines 69-72: m + (brightness - 128) * (1 - m/255.0) * (m/255.0) * 2, clamped
\* to [0, 255] and truncated by int().  The value is the rational
\* (65025*m + 2*(brightness - 128)*m*(255 - m)) / 65025; for the brightness
\* values drawn here it is an integer only at m = 0 and m = 255, where the
\* floating-point factor is exactly 0, so the double-precision evaluation
\* truncates to the same integer.
adjust(m, brightness) ==
  LET num == 65025 * m + 2 * (brightness - 128) * m * (255 - m)
  IN  IF num <= 0 THEN 0
      ELSE IF num >= 255 * 65025 THEN 255
      ELSE num \div 65025

\* line 55: convert("RGBA") of a pixel.
ToRGBA(mode, p) == IF mode = "RGBA" THEN p ELSE <<p, p, p, 255>>

to_grayscale(img, brightness, alpha_as_white) ==
  LET gray(p) ==
        LET rgba == ToRGBA(img.mode, p)
            flat == IF alpha_as_white THEN AlphaCompositeOverWhite(rgba) ELSE rgba
        IN  IF brightness # NeutralBrightness
            THEN adjust(Luma(flat), brightness)
            ELSE Luma(flat)
  IN  [mode |-> "L", w |-> img.w, h |-> img.h,
       px |-> [y \in 1..img.h |-> [x \in 1..img.w |-> gray(img.px[y][x])]]]

(***************************************************************************)
(* The ditherers (src/server_image.py 77-110): Image.convert('1', dither). *)
(***************************************************************************)
Clip8(v) == IF v < 0 THEN 0 ELSE IF v > 255 THEN 255 ELSE v
\* C integer division, which truncates toward zero.
TruncDiv(a, b) == IF a >= 0 THEN a \div b ELSE -((-a) \div b)

\* Dither.NONE: Pillow sets every value above 127 to white, the rest to black.
\* A variant with the threshold one too high (128 turns black).
ThresholdAbove(v) == IF v > 128 THEN 255 ELSE 0

Threshold(v) == IF v >= 128 THEN 255 ELSE 0

\* Dither.FLOYDSTEINBERG, one pixel of Pillow's tobilevel: v is the input
\* value, cx its column from 0, st the scan state (the running error l, the
\* partial sums l0 and l1 for the row below, the error row, the output).
FSStep(v, cx, st) ==
  LET l   == Clip8(v + TruncDiv(st.l + st.errors[cx + 1], 16))
      o   == IF l > 128 THEN 255 ELSE 0
      err == l - o
  IN  [l |-> 7 * err, l0 |-> 5 * err + st.l1, l1 |-> err,
       errors |-> [st.errors EXCEPT ![cx] = 3 * err + st.l0],
       out |-> Append(st.out, o)]

\* One row: the pixels left to right from l = l0 = l1 = 0; the row's last
\* partial sum is stored past the end of the error row.
RECURSIVE FSRow(_, _)
FSRow(row, st) ==
  IF Len(st.out) = Len(row)
  THEN [errors |-> [st.errors EXCEPT ![Len(row)] = st.l0], out |-> st.out]
  ELSE FSRow(row, FSStep(row[Len(st.out) + 1], Len(st.out), st))

\* The rows top to bottom, the error row carried from each to the next.
FSNextRow(row, r) ==
  LET done == FSRow(row, [l |-> 0, l0 |-> 0, l1 |-> 0,
                          errors |-> r.errors, out |-> <<>>])
  IN  [errors |-> done.errors, rows |-> Append(r.rows, done.out)]

RECURSIVE FSRows(_, _)
FSRows(px, r) ==
  IF Len(r.rows) = Len(px) THEN r.rows
  ELSE FSRows(px, FSNextRow(px[Len(r.rows) + 1], r))

ConvertFloydSteinberg(img) ==
  [mode |-> "1", w |-> img.w, h |-> img.h,
   px |-> FSRows(img.px, [errors |-> [i \in 0..img.w |-> 0], rows |-> <<>>])]

\* line 79
dither_direct(img) ==
  [mode |-> "1", w |-> img.w, h |-> img.h,
   px |-> [y \in 1..img.h |-> [x \in 1..img.w |-> Threshold(img.px[y][x])]]]
\* line 83
dither_floyd_steinberg(img) == ConvertFloydSteinberg(img)
\* line 110
dither_halftone(img) == ConvertFloydSteinberg(img)

(***************************************************************************)
(* pack_to_pbm (src/server_image.py 113-128)                               *)
(***************************************************************************)
RECURSIVE Decimal(_)
\* '%d' of a natural, as ASCII codes.
Decimal(n) == IF n < 10 THEN <<48 + n>> ELSE Decimal(n \div 10) \o <<48 + (n % 10)>>

\* b'P4\n%d %d\n' % (width, height)
Header(width, height) ==
  <<80, 52, 10>> \o Decimal(width) \o <<32>> \o Decimal(height) \o <<10>>

\* A variant without the inversion: the bit is set where the pixel is set.
PackBitAsIs(row, i) == IF i <= Len(row) /\ row[i] # 0 THEN 1 ELSE 0

\* The raw encoder "1;I": a bit is set where the pixel is 0 (black); bits past
\* the row's end stay clear.
PackBit(row, i) == IF i <= Len(row) /\ row[i] = 0 THEN 1 ELSE 0

\* A variant that pads every row to a multiple of 16 bits.
RowBytesWordAligned(width) == 2 * ((width + 15) \div 16)

\* The bytes of one packed row.
RowBytes(width) == (width + 7) \div 8

PackByte(row, k) ==
  128 * PackBit(row, 8 * k - 7) + 64 * PackBit(row, 8 * k - 6)
    + 32 * PackBit(row, 8 * k - 5) + 16 * PackBit(row, 8 * k - 4)
    + 8 * PackBit(row, 8 * k - 3) + 4 * PackBit(row, 8 * k - 2)
    + 2 * PackBit(row, 8 * k - 1) + PackBit(row, 8 * k)

\* tobytes("raw", "1;I"): the rows one after another.
ToBytes(img) ==
  [i \in 1..(img.h * RowBytes(img.w)) |->
     PackByte(img.px[((i - 1) \div RowBytes(img.w)) + 1], ((i - 1) % RowBytes(img.w)) + 1)]

\* lines 117-118: an image that is not bilevel is converted with the default
\* dither of convert('1'), Floyd-Steinberg.
BilevelOf(img) == IF img.mode # "1" THEN ConvertFloydSteinberg(img) ELSE img

pack_to_pbm(img) == Header(img.w, img.h) \o ToBytes(BilevelOf(img))

(***************************************************************************)
(* The pipeline stages as steps: a source is converted to grayscale, the   *)
(* grayscale raster is dithered (directly or as process_image selects),    *)
(* and a grayscale or bilevel raster is packed.                            *)
(***************************************************************************)
Algorithms == {"algo-direct", "algo-steinberg", "algo-halftone"}

NoCall == [gray |-> "none", brightness |-> 0, alpha_as_white |-> TRUE,
           dither |-> "none", algorithm |-> "none"]


\* to_grayscale(img): brightness and alpha_as_white take their defaults.
ToGrayscaleDefault ==
  /\ im_stage = "source"
  /\ im_gray' = to_grayscale(im_src, DefaultBrightness, TRUE)
  /\ im_call' = [im_call EXCEPT !.gray = "default",
                                !.brightness = DefaultBrightness]
  /\ im_stage' = "gray"
  /\ UNCHANGED <<im_src, im_bilevel, im_out>>
  /\ UNCHANGED <<rsVars, dlVars, mnVars>>

\* to_grayscale(img, brightness, alpha_as_white)
ToGrayscaleWith ==
  /\ im_stage = "source"
  /\ \E b \in Brightnesses, aw \in BOOLEAN :
       /\ im_gray' = to_grayscale(im_src, b, aw)
       /\ im_call' = [im_call EXCEPT !.gray = "args", !.brightness = b,
                                     !.alpha_as_white = aw]
  /\ im_stage' = "gray"
  /\ UNCHANGED <<im_src, im_bilevel, im_out>>
  /\ UNCHANGED <<rsVars, dlVars, mnVars>>

DitherDirect ==
  /\ im_stage = "gray"
  /\ im_bilevel' = dither_direct(im_gray)
  /\ im_call' = [im_call EXCEPT !.dither = "dither_direct"]
  /\ im_stage' = "bilevel"
  /\ UNCHANGED <<im_src, im_gray, im_out>>
  /\ UNCHANGED <<rsVars, dlVars, mnVars>>

DitherFloydSteinberg ==
  /\ im_stage = "gray"
  /\ im_bilevel' = dither_floyd_steinberg(im_gray)
  /\ im_call' = [im_call EXCEPT !.dither = "dither_floyd_steinberg"]
  /\ im_stage' = "bilevel"
  /\ UNCHANGED <<im_src, im_gray, im_out>>
  /\ UNCHANGED <<rsVars, dlVars, mnVars>>

DitherHalftone ==
  /\ im_stage = "gray"
  /\ im_bilevel' = dither_halftone(im_gray)
  /\ im_call' = [im_call EXCEPT !.dither = "dither_halftone"]
  /\ im_stage' = "bilevel"
  /\ UNCHANGED <<im_src, im_gray, im_out>>
  /\ UNCHANGED <<rsVars, dlVars, mnVars>>

\* process_image lines 136-142: after to_grayscale(img), 'algo-direct' selects
\* dither_direct and every other algorithm dither_floyd_steinberg.
ProcessDither ==
  /\ im_stage = "gray"
  /\ im_call.gray = "default"
  /\ \E algorithm \in Algorithms :
       IF algorithm = "algo-direct"
       THEN /\ im_bilevel' = dither_direct(im_gray)
            /\ im_call' = [im_call EXCEPT !.dither = "dither_direct",
                                          !.algorithm = algorithm]
       ELSE /\ im_bilevel' = dither_floyd_steinberg(im_gray)
            /\ im_call' = [im_call EXCEPT !.dither = "dither_floyd_steinberg",
                                          !.algorithm = algorithm]
  /\ im_stage' = "bilevel"
  /\ UNCHANGED <<im_src, im_gray, im_out>>
  /\ UNCHANGED <<rsVars, dlVars, mnVars>>

\* pack_to_pbm of the dithered raster
PackBilevel ==
  /\ im_stage = "bilevel"
  /\ im_out' = pack_to_pbm(im_bilevel)
  /\ im_stage' = "packed"
  /\ UNCHANGED <<im_src, im_gray, im_bilevel, im_call>>
  /\ UNCHANGED <<rsVars, dlVars, mnVars>>

\* pack_to_pbm of a grayscale raster, which it converts itself
PackGray ==
  /\ im_stage = "gray"
  /\ im_out' = pack_to_pbm(im_gray)
  /\ im_bilevel' = BilevelOf(im_gray)
  /\ im_stage' = "packed"
  /\ UNCHANGED <<im_src, im_gray, im_call>>
  /\ UNCHANGED <<rsVars, dlVars, mnVars>>


ImNext ==
  \/ ToGrayscaleDefault \/ ToGrayscaleWith
  \/ DitherDirect \/ DitherFloydSteinberg \/ DitherHalftone \/ ProcessDither
  \/ PackBilevel \/ PackGray

(***************************************************************************)
(* Strings are sequences of one-character strings.                         *)
(***************************************************************************)
StartsWith(s, prefix) ==
  Len(s) >= Len(prefix) /\ SubSeq(s, 1, Len(prefix)) = prefix

Digits == {"0", "1", "2", "3", "4", "5", "6", "7", "8", "9"}
DigitValue(c) ==
  CASE c = "0" -> 0 [] c = "1" -> 1 [] c = "2" -> 2 [] c = "3" -> 3 [] c = "4" -> 4
    [] c = "5" -> 5 [] c = "6" -> 6 [] c = "7" -> 7 [] c = "8" -> 8 [] c = "9" -> 9

RECURSIVE DigitsValue(_)
DigitsValue(s) ==
  IF s = <<>> THEN 0 ELSE 10 * DigitsValue(SubSeq(s, 1, Len(s) - 1)) + DigitValue(s[Len(s)])

\* int(s) of a string: an optional sign and decimal digits; anything else
\* raises ValueError.
IntBody(s) == IF s # <<>> /\ s[1] \in {"+", "-"} THEN Tail(s) ELSE s
IsIntLiteral(s) == IntBody(s) # <<>> /\ \A i \in 1..Len(IntBody(s)) : IntBody(s)[i] \in Digits
IntOf(s) == IF s[1] = "-" THEN -DigitsValue(IntBody(s)) ELSE DigitsValue(IntBody(s))

(***************************************************************************)
(* download_image (src/server_image.py 6-36)                               *)
(***************************************************************************)
\* The inputs drawn: URLs, Content-Type and Content-Length header texts.
URL_HTTP == <<"h", "t", "t", "p", ":", "/", "/", "h">>
URL_HTTPS == <<"h", "t", "t", "p", "s", ":", "/", "/", "h">>
URL_HTTPX == <<"h", "t", "t", "p", "x", ":", "/", "/", "h">>
URL_HTTP_FILE == <<"h", "t", "t", "p", "-", "f", "i", "l", "e">>
URL_FTP == <<"f", "t", "p", ":", "/", "/", "h">>
URL_UPPER == <<"H", "T", "T", "P", ":", "/", "/", "h">>
CT_PNG == <<"i", "m", "a", "g", "e", "/", "p", "n", "g">>
CT_HTML == <<"t", "e", "x", "t", "/", "h", "t", "m", "l">>
CT_UPPER == <<"I", "M", "A", "G", "E", "/", "P", "N", "G">>
CT_BARE == <<"i", "m", "a", "g", "e">>
CL_ONE == <<"1">>
CL_MAX == <<"1", "0", "4", "8", "5", "7", "6", "0">>
CL_OVER == <<"1", "0", "4", "8", "5", "7", "6", "1">>
CL_JUNK == <<"1", "M", "B">>

Urls == {URL_HTTP, URL_HTTPS, URL_HTTPX, URL_HTTP_FILE,
         URL_FTP, URL_UPPER, <<>>}

\* 10 * 1024 * 1024 (lines 23 and 30)
MaxBytes == 10 * 1024 * 1024

\* The status of the response requests.get returns: redirects are followed,
\* but a 3xx response that names no Location is returned as it is.
Statuses == {200, 300, 404, 500}
ContentTypes == {<<>>, CT_PNG, CT_HTML, CT_UPPER, CT_BARE}
\* The Content-Length header: absent (None), or its text.
NoHeader == <<"None">>
ContentLengths == {NoHeader, <<>>, CL_ONE, CL_MAX, CL_OVER, CL_JUNK}
BodySizes == {0, 1, MaxBytes, MaxBytes + 1}

NoResponse == [status |-> 0, content_type |-> <<>>, content_length |-> NoHeader]
NoTrace == [requested |-> FALSE, sent |-> FALSE, downloaded |-> FALSE, decoded |-> FALSE]
NoResult == [kind |-> "none", error |-> "none"]
Raised(error) == [kind |-> "error", error |-> error]

\* line 10
UrlAccepted(url) == StartsWith(url, <<"h", "t", "t", "p">>)

\* requests sends a request only for a URL it has a connection adapter for,
\* http:// or https://; any other raises a RequestException before connecting.
HasAdapter(url) ==
  \/ StartsWith(url, <<"h", "t", "t", "p", ":", "/", "/">>)
  \/ StartsWith(url, <<"h", "t", "t", "p", "s", ":", "/", "/">>)

\* response.raise_for_status() raises HTTPError for a 4xx or 5xx status.
StatusRaises(status) == 400 <= status /\ status < 600

\* line 19
TypeAccepted(content_type) ==
  StartsWith(content_type, <<"i", "m", "a", "g", "e", "/">>)

\* A variant whose cap is taken in KiB where the sizes are in bytes.
TooLargeInKiB(nbytes) == nbytes \div 1024 > MaxBytes

\* lines 23 and 30
TooLarge(nbytes) == nbytes > MaxBytes


DlFail(error) ==
  /\ dl_pc' = "done"
  /\ dl_result' = Raised(error)

\* lines 10-11
CheckUrl ==
  /\ dl_pc = "check_url"
  /\ IF UrlAccepted(dl_url)
     THEN dl_pc' = "request" /\ UNCHANGED dl_result
     ELSE DlFail("URL must start with http/https")
  /\ UNCHANGED <<dl_url, dl_response, dl_body, dl_trace>>
  /\ UNCHANGED <<rsVars, imVars, mnVars>>

\* line 15, requests.get(url, stream=True, timeout=timeout): the headers of a
\* response arrive, or a RequestException is raised (lines 35-36).
Request ==
  /\ dl_pc = "request"
  /\ \/ /\ HasAdapter(dl_url)
        /\ \E st \in Statuses, ct \in ContentTypes, cl \in ContentLengths :
             dl_response' = [status |-> st, content_type |-> ct, content_length |-> cl]
        /\ dl_trace' = [dl_trace EXCEPT !.requested = TRUE, !.sent = TRUE]
        /\ dl_pc' = "raise_for_status"
        /\ UNCHANGED dl_result
     \/ /\ dl_trace' = [dl_trace EXCEPT !.requested = TRUE, !.sent = HasAdapter(dl_url)]
        /\ DlFail("Download failed")
        /\ UNCHANGED dl_response
  /\ UNCHANGED <<dl_url, dl_body>>
  /\ UNCHANGED <<rsVars, imVars, mnVars>>

\* line 16
RaiseForStatus ==
  /\ dl_pc = "raise_for_status"
  /\ IF StatusRaises(dl_response.status)
     THEN DlFail("Download failed")
     ELSE dl_pc' = "check_type" /\ UNCHANGED dl_result
  /\ UNCHANGED <<dl_url, dl_response, dl_body, dl_trace>>
  /\ UNCHANGED <<rsVars, imVars, mnVars>>

\* lines 18-20
CheckContentType ==
  /\ dl_pc = "check_type"
  /\ IF ~TypeAccepted(dl_response.content_type)
     THEN DlFail("Invalid Content-Type")
     ELSE dl_pc' = "check_length" /\ UNCHANGED dl_result
  /\ UNCHANGED <<dl_url, dl_response, dl_body, dl_trace>>
  /\ UNCHANGED <<rsVars, imVars, mnVars>>

\* lines 22-24: an absent or empty header is skipped; int() of a header that
\* is not a number raises ValueError.
CheckContentLength ==
  /\ dl_pc = "check_length"
  /\ IF dl_response.content_length \in {NoHeader, <<>>}
     THEN dl_pc' = "download" /\ UNCHANGED dl_result
     ELSE IF ~IsIntLiteral(dl_response.content_length)
     THEN DlFail("invalid literal for int()")
     ELSE IF TooLarge(IntOf(dl_response.content_length))
     THEN DlFail("Image too large (>10MB)")
     ELSE dl_pc' = "download" /\ UNCHANGED dl_result
  /\ UNCHANGED <<dl_url, dl_response, dl_body, dl_trace>>
  /\ UNCHANGED <<rsVars, imVars, mnVars>>

\* line 27, response.content: the whole body is read, whatever its length, or
\* the connection fails (RequestException).
Download ==
  /\ dl_pc = "download"
  /\ \/ /\ dl_body' \in BodySizes
        /\ dl_trace' = [dl_trace EXCEPT !.downloaded = TRUE]
        /\ dl_pc' = "check_size"
        /\ UNCHANGED dl_result
     \/ /\ DlFail("Download failed")
        /\ UNCHANGED <<dl_body, dl_trace>>
  /\ UNCHANGED <<dl_url, dl_response>>
  /\ UNCHANGED <<rsVars, imVars, mnVars>>

\* lines 30-31
CheckSize ==
  /\ dl_pc = "check_size"
  /\ IF TooLarge(dl_body)
     THEN DlFail("Image too large (>10MB)")
     ELSE dl_pc' = "decode" /\ UNCHANGED dl_result
  /\ UNCHANGED <<dl_url, dl_response, dl_body, dl_trace>>
  /\ UNCHANGED <<rsVars, imVars, mnVars>>

\* line 33, Image.open: the image, or an error for a payload Pillow cannot
\* identify.
Decode ==
  /\ dl_pc = "decode"
  /\ dl_trace' = [dl_trace EXCEPT !.decoded = TRUE]
  /\ dl_pc' = "done"
  /\ \/ dl_result' = [kind |-> "image", error |-> "none"]
     \/ dl_result' = Raised("cannot identify image file")
  /\ UNCHANGED <<dl_url, dl_response, dl_body>>
  /\ UNCHANGED <<rsVars, imVars, mnVars>>


DlNext ==
  \/ CheckUrl \/ Request \/ RaiseForStatus \/ CheckContentType
  \/ CheckContentLength \/ Download \/ CheckSize \/ Decode

(***************************************************************************)
(* The print loop of main() (src/main.py 97-154)                           *)
(***************************************************************************)
\* The lines typed at the prompt.
TXT_HELLO == <<"h", "i">>
TXT_Q == <<"q">>
TXT_UPPER_Q == <<"Q">>
TXT_EXIT == <<"E", "x", "i", "t">>
TXT_EMPTY == <<>>
TXT_SIZE_12 == <<"/", "s", "i", "z", "e", " ", "1", "2">>
TXT_SIZE_48 == <<"/", "s", "i", "z", "e", " ", "4", "8">>
TXT_SIZE_0 == <<"/", "s", "i", "z", "e", " ", "0">>
TXT_SIZE_NEG == <<"/", "s", "i", "z", "e", " ", "-", "3">>
TXT_SIZE_JUNK == <<"/", "s", "i", "z", "e", " ", "x">>
TXT_SIZE_GAP == <<"/", "s", "i", "z", "e", " ", " ", "5">>
TXT_SIZE_BARE == <<"/", "s", "i", "z", "e">>
TXT_PAD_0 == <<"/", "p", "a", "d", " ", "0">>
TXT_PAD_10 == <<"/", "p", "a", "d", " ", "1", "0", " ", "x">>
TXT_PAD_NEG == <<"/", "p", "a", "d", " ", "-", "1">>
TXT_PAD_JUNK == <<"/", "p", "a", "d", " ", "?">>
Texts == {TXT_HELLO, TXT_Q, TXT_UPPER_Q, TXT_EXIT, TXT_EMPTY, TXT_SIZE_12,
          TXT_SIZE_48, TXT_SIZE_0, TXT_SIZE_NEG, TXT_SIZE_JUNK, TXT_SIZE_GAP,
          TXT_SIZE_BARE, TXT_PAD_0, TXT_PAD_10, TXT_PAD_NEG, TXT_PAD_JUNK}

\* str.lower(), on the letters the inputs use.
LowerChar(c) ==
  CASE c = "Q" -> "q" [] c = "E" -> "e" [] c = "X" -> "x" [] c = "I" -> "i"
    [] c = "T" -> "t" [] OTHER -> c
Lower(s) == [i \in 1..Len(s) |-> LowerChar(s[i])]

\* The index of the first space of s, or Len(s) + 1.
FirstSpace(s) ==
  IF \E i \in 1..Len(s) : s[i] = " "
  THEN CHOOSE i \in 1..Len(s) : s[i] = " " /\ \A j \in 1..(i - 1) : s[j] # " "
  ELSE Len(s) + 1

\* text.split(' ')[1], for a text that holds a space.
SecondField(text) ==
  LET rest == SubSeq(text, FirstSpace(text) + 1, Len(text))
  IN  SubSeq(rest, 1, FirstSpace(rest) - 1)

\* The exceptions the calls of the loop body raise.  KeyboardInterrupt is
\* the one that is no subclass of Exception.
Exceptions == {"ImportError", "OSError", "KeyboardInterrupt"}

\* A variant in which the handlers take ImportError only.
IsImportErrorOnly(exc) == exc = "ImportError"

\* isinstance(exc, Exception)
IsException(exc) == exc \in {"ImportError", "OSError"}

\* lines 146-149: the handlers of the try around rendering and printing.
InnerCatch(exc) ==
  IF exc = "ImportError" THEN "Error: Pillow not installed"
  ELSE IF IsException(exc) THEN "Error rendering/printing"
  ELSE "uncaught"

\* lines 151-154: the handlers of the try around the loop body.
LoopCatch(exc) ==
  IF exc = "KeyboardInterrupt" THEN "break"
  ELSE IF IsException(exc) THEN "Error during printing"
  ELSE "uncaught"


\* An exception exc raised in the loop body outside the inner try, or one
\* the inner try does not catch: lines 151-154, else it leaves the loop.
LoopHandles(exc, failure) ==
  IF LoopCatch(exc) = "break"
  THEN mn_pc' = "ended" /\ mn_event' = "interrupt" /\ UNCHANGED mn_message
  ELSE IF LoopCatch(exc) = "uncaught"
  THEN mn_pc' = "ended" /\ mn_event' = failure /\ UNCHANGED mn_message
  ELSE mn_pc' = "prompt" /\ mn_event' = failure /\ mn_message' = LoopCatch(exc)

\* An exception exc raised by text_to_pbm or driver.print: lines 146-149.
InnerHandles(exc, failure) ==
  IF InnerCatch(exc) = "uncaught"
  THEN LoopHandles(exc, failure)
  ELSE mn_pc' = "prompt" /\ mn_event' = failure /\ mn_message' = InnerCatch(exc)

\* lines 109-119
SizeCommand(text) ==
  /\ mn_pc' = "prompt"
  /\ IF ~IsIntLiteral(SecondField(text))
     THEN /\ mn_event' = "size_usage" /\ mn_message' = "Usage: /size <number>"
          /\ UNCHANGED current_font_size
     ELSE IF IntOf(SecondField(text)) > 0
     THEN /\ current_font_size' = IntOf(SecondField(text))
          /\ mn_event' = "size_set" /\ mn_message' = "Font size set"
     ELSE /\ mn_event' = "size_rejected" /\ mn_message' = "Size must be positive."
          /\ UNCHANGED current_font_size
  /\ UNCHANGED current_padding

\* lines 121-131
PadCommand(text) ==
  /\ mn_pc' = "prompt"
  /\ IF ~IsIntLiteral(SecondField(text))
     THEN /\ mn_event' = "pad_usage" /\ mn_message' = "Usage: /pad <number>"
          /\ UNCHANGED current_padding
     ELSE IF IntOf(SecondField(text)) >= 0
     THEN /\ current_padding' = IntOf(SecondField(text))
          /\ mn_event' = "pad_set" /\ mn_message' = "Padding set"
     ELSE /\ mn_event' = "pad_rejected" /\ mn_message' = "Padding must be non-negative."
          /\ UNCHANGED current_padding
  /\ UNCHANGED current_font_size

\* lines 102-136: a line is read and dispatched.
ReadLine ==
  /\ mn_pc = "prompt"
  /\ \E text \in Texts :
       /\ mn_text' = text
       /\ IF Lower(text) \in {<<"q">>, <<"e", "x", "i", "t">>}
          THEN /\ mn_pc' = "ended" /\ mn_event' = "quit"
               /\ UNCHANGED <<current_font_size, current_padding, mn_message>>
          ELSE IF text = <<>>
          THEN /\ mn_pc' = "prompt" /\ mn_event' = "empty"
               /\ UNCHANGED <<current_font_size, current_padding, mn_message>>
          ELSE IF StartsWith(text, <<"/", "s", "i", "z", "e", " ">>)
          THEN SizeCommand(text)
          ELSE IF StartsWith(text, <<"/", "p", "a", "d", " ">>)
          THEN PadCommand(text)
          ELSE /\ mn_pc' = "render" /\ mn_event' = "rendering"
               /\ mn_message' = "Rendering text..."
               /\ UNCHANGED <<current_font_size, current_padding>>
  /\ UNCHANGED <<rsVars, imVars, dlVars>>

\* line 102: input() raises, EOFError at the end of the input or
\* KeyboardInterrupt.
ReadLineRaises ==
  /\ mn_pc = "prompt"
  /\ \E exc \in {"EOFError", "KeyboardInterrupt"} :
       LoopHandles(IF exc = "EOFError" THEN "OSError" ELSE exc, "input_failed")
  /\ UNCHANGED <<current_font_size, current_padding, mn_text>>
  /\ UNCHANGED <<rsVars, imVars, dlVars>>

\* lines 140-143: text_to_pbm returns
Render ==
  /\ mn_pc = "render"
  /\ mn_pc' = "print" /\ mn_event' = "rendered" /\ mn_message' = "Printing..."
  /\ UNCHANGED <<current_font_size, current_padding, mn_text>>
  /\ UNCHANGED <<rsVars, imVars, dlVars>>

\* line 141: text_to_pbm raises
RenderRaises ==
  /\ mn_pc = "render"
  /\ \E exc \in Exceptions : InnerHandles(exc, "render_failed")
  /\ UNCHANGED <<current_font_size, current_padding, mn_text>>
  /\ UNCHANGED <<rsVars, imVars, dlVars>>

\* lines 144-145: driver.print returns
PrintData ==
  /\ mn_pc = "print"
  /\ mn_pc' = "prompt" /\ mn_event' = "printed" /\ mn_message' = "Done."
  /\ UNCHANGED <<current_font_size, current_padding, mn_text>>
  /\ UNCHANGED <<rsVars, imVars, dlVars>>

\* line 144: driver.print raises
PrintRaises ==
  /\ mn_pc = "print"
  /\ \E exc \in Exceptions : InnerHandles(exc, "print_failed")
  /\ UNCHANGED <<current_font_size, current_padding, mn_text>>
  /\ UNCHANGED <<rsVars, imVars, dlVars>>


MnNext ==
  \/ ReadLine \/ ReadLineRaises \/ Render \/ RenderRaises
  \/ PrintData \/ PrintRaises

(***************************************************************************)
(* Specifications: one per component, the others idle.                     *)
(***************************************************************************)
\* resize_image is called with an image of some size and a target width.
InitResize ==
  /\ rs_pc = "start"
  /\ rs_size \in SrcDims \X SrcDims
  /\ rs_target_width \in TargetWidths
  /\ rs_target_height = 0
  /\ rs_result = <<>>
  /\ im_stage = "idle"
  /\ im_src = NoImage
  /\ im_gray = NoImage
  /\ im_bilevel = NoImage
  /\ im_out = <<>>
  /\ im_call = NoCall
  /\ dl_pc = "idle"
  /\ dl_url = <<>>
  /\ dl_response = NoResponse
  /\ dl_body = -1
  /\ dl_trace = NoTrace
  /\ dl_result = NoResult
  /\ mn_pc = "idle"
  /\ current_font_size = 24
  /\ current_padding = 50
  /\ mn_text = <<>>
  /\ mn_event = "idle"
  /\ mn_message = "idle"

\* A source image, or a grayscale raster handed to the ditherers directly.
InitImage ==
  /\ im_call = NoCall
  /\ im_bilevel = NoImage
  /\ im_out = <<>>
  /\ \/ im_stage = "source" /\ im_src \in Sources /\ im_gray = NoImage
     \/ im_stage = "gray" /\ im_src \in Rasters /\ im_gray = im_src
  /\ rs_pc = "idle"
  /\ rs_size = <<1, 1>>
  /\ rs_target_width = 0
  /\ rs_target_height = 0
  /\ rs_result = <<>>
  /\ dl_pc = "idle"
  /\ dl_url = <<>>
  /\ dl_response = NoResponse
  /\ dl_body = -1
  /\ dl_trace = NoTrace
  /\ dl_result = NoResult
  /\ mn_pc = "idle"
  /\ current_font_size = 24
  /\ current_padding = 50
  /\ mn_text = <<>>
  /\ mn_event = "idle"
  /\ mn_message = "idle"

\* download_image is called with some URL.
InitDownload ==
  /\ dl_pc = "check_url"
  /\ dl_url \in Urls
  /\ dl_response = NoResponse
  /\ dl_body = -1
  /\ dl_trace = NoTrace
  /\ dl_result = NoResult
  /\ rs_pc = "idle"
  /\ rs_size = <<1, 1>>
  /\ rs_target_width = 0
  /\ rs_target_height = 0
  /\ rs_result = <<>>
  /\ im_stage = "idle"
  /\ im_src = NoImage
  /\ im_gray = NoImage
  /\ im_bilevel = NoImage
  /\ im_out = <<>>
  /\ im_call = NoCall
  /\ mn_pc = "idle"
  /\ current_font_size = 24
  /\ current_padding = 50
  /\ mn_text = <<>>
  /\ mn_event = "idle"
  /\ mn_message = "idle"

\* lines 97-98: the loop starts with font size 24 and padding 50.
InitMain ==
  /\ mn_pc = "prompt"
  /\ current_font_size = 24
  /\ current_padding = 50
  /\ mn_text = <<>>
  /\ mn_event = "ready"
  /\ mn_message = "--- Printer Ready ---"
  /\ rs_pc = "idle"
  /\ rs_size = <<1, 1>>
  /\ rs_target_width = 0
  /\ rs_target_height = 0
  /\ rs_result = <<>>
  /\ im_stage = "idle"
  /\ im_src = NoImage
  /\ im_gray = NoImage
  /\ im_bilevel = NoImage
  /\ im_out = <<>>
  /\ im_call = NoCall
  /\ dl_pc = "idle"
  /\ dl_url = <<>>
  /\ dl_response = NoResponse
  /\ dl_body = -1
  /\ dl_trace = NoTrace
  /\ dl_result = NoResult

SpecResize == InitResize /\ [][RsNext]_vars
SpecImage == InitImage /\ [][ImNext]_vars
SpecDownload == InitDownload /\ [][DlNext]_vars
SpecMain == InitMain /\ [][MnNext]_vars

(***************************************************************************)
(* Properties.                                                             *)
(***************************************************************************)
\* What was packed: the raster's size, the length of one packed row as the
\* format defines it, and the bit of pixel (x, y) read back from the output.
PackedRowLen == IF im_gray.w % 8 = 0 THEN im_gray.w \div 8 ELSE (im_gray.w \div 8) + 1
PackedHeaderLen == Len(im_out) - im_gray.h * PackedRowLen
OutByte(x, y) == im_out[PackedHeaderLen + (y - 1) * PackedRowLen + ((x - 1) \div 8) + 1]
OutBit(x, y) == (OutByte(x, y) \div 2^(7 - ((x - 1) % 8))) % 2
AsciiDigits(n) == IF n < 10 THEN <<48 + n>> ELSE <<48 + (n \div 10), 48 + (n % 10)>>
IsUniform(img, c) == \A y \in 1..img.h : \A x \in 1..img.w : img.px[y][x] = c

\* C1: the packed output starts with exactly "P4\n{w} {h}\n" and its length is
\* the header's plus h * ceil(w/8): every row takes ceil(w/8) bytes, with no
\* padding between rows, also when w is not a multiple of 8.
C1_HeaderAndLength ==
  im_stage = "packed" =>
    LET header == <<80, 52, 10>> \o AsciiDigits(im_gray.w) \o <<32>>
                    \o AsciiDigits(im_gray.h) \o <<10>>
    IN  /\ Len(im_out) >= Len(header)
        /\ SubSeq(im_out, 1, Len(header)) = header
        /\ Len(im_out) = Len(header) + im_gray.h * PackedRowLen

\* C1 witness: a raster 9 wide and 2 high was packed into 2 + 2 data bytes.
C1_Witness ==
  /\ im_stage = "packed" /\ im_gray.w = 9 /\ im_gray.h = 2
  /\ Len(im_out) = 7 + 4

\* C2 as stated: the returned height is H0*T/W0 rounded to nearest.
C2_RoundedHeight ==
  rs_pc = "returned" /\ rs_target_width > 0 =>
    /\ rs_result[1] = rs_target_width
    /\ 2 * Abs(rs_result[2] * rs_size[1] - rs_size[2] * rs_target_width) <= rs_size[1]

\* C2 amended: for T > 0 the height is H0 * (T / W0) truncated, not rounded:
\* floor(H0*T/W0) when W0 does not divide H0*T, and that quotient or one less
\* when it does (the rounded double T/W0 can leave the product just below the
\* integer); the image is returned with width T and that height when the
\* height is at least 1 (192 for (1000, 500) and T = 384), and the call raises
\* when it is 0.
C2_TruncatedHeight ==
  LET X  == rs_size[2] * rs_target_width
      W0 == rs_size[1]
  IN  /\ (rs_pc = "returned" /\ rs_target_width > 0 =>
            /\ rs_result[1] = rs_target_width
            /\ rs_result[2] >= 1
            /\ (X % W0 # 0 => rs_result[2] = X \div W0)
            /\ (X % W0 = 0 => rs_result[2] \in {X \div W0, (X \div W0) - 1})
            /\ (rs_size = <<1000, 500>> /\ rs_target_width = 384
                  => rs_result = <<384, 192>>))
      /\ (rs_pc = "raised" /\ rs_target_width > 0 =>
            /\ rs_result = <<>>
            /\ X \div W0 <= 1
            /\ (X \div W0 = 1 => X % W0 = 0))

\* C2 witness: a height whose exact value has a fraction of at least one half
\* was returned.
C2_Witness ==
  /\ rs_pc = "returned" /\ rs_target_width > 0
  /\ 2 * ((rs_size[2] * rs_target_width) % rs_size[1]) >= rs_size[1]
  /\ rs_result[2] = (rs_size[2] * rs_target_width) \div rs_size[1]

\* C3: after dither_direct and pack_to_pbm the bit of every pixel is 0 where
\* its grayscale value is >= 128 and 1 where it is < 128, whatever the other
\* pixels are.
C3_DirectThreshold ==
  im_stage = "packed" /\ im_call.dither = "dither_direct" =>
    \A y \in 1..im_gray.h : \A x \in 1..im_gray.w :
      OutBit(x, y) = IF im_gray.px[y][x] >= 128 THEN 0 ELSE 1

\* C3 witness: a raster holding both 127 and 128 was thresholded and packed.
C3_Witness ==
  /\ im_stage = "packed" /\ im_call.dither = "dither_direct"
  /\ \E y \in 1..im_gray.h : \E x \in 1..im_gray.w : im_gray.px[y][x] = 128
  /\ \E y \in 1..im_gray.h : \E x \in 1..im_gray.w : im_gray.px[y][x] = 127

\* C4: a pure-white source through to_grayscale() and then pack_to_pbm gives
\* data bytes that are all 0x00, and a pure-black source gives every pixel
\* bit 1 (0xFF for 8x1), pack_to_pbm converting the grayscale image itself.
C4_WhiteAndBlackEndToEnd ==
  im_stage = "packed" /\ im_call.gray = "default" /\ im_call.dither = "none" =>
    /\ (IsUniform(im_src, White) =>
          \A i \in (PackedHeaderLen + 1)..Len(im_out) : im_out[i] = 0)
    /\ (IsUniform(im_src, Black) =>
          /\ \A y \in 1..im_gray.h : \A x \in 1..im_gray.w : OutBit(x, y) = 1
          /\ (im_src.w = 8 /\ im_src.h = 1 => im_out[Len(im_out)] = 255))

\* C4 witness: the 8x1 pure-black source was packed into the byte 0xFF.
C4_Witness ==
  /\ im_stage = "packed" /\ im_call.gray = "default" /\ im_call.dither = "none"
  /\ IsUniform(im_src, Black) /\ im_src.w = 8 /\ im_src.h = 1
  /\ SubSeq(im_out, PackedHeaderLen + 1, Len(im_out)) = <<255>>

\* C5 as stated: to_grayscale() with its default brightness is the identity
\* on the luma of the white-composited pixel.
C5_DefaultBrightnessIsIdentity ==
  im_stage = "gray" /\ im_call.gray = "default" =>
    \A y \in 1..im_src.h : \A x \in 1..im_src.w :
      im_gray.px[y][x] = Luma(AlphaCompositeOverWhite(im_src.px[y][x]))

\* C8 as stated: the halftone output bit of a pixel depends only on the
\* pixel's value and its position, so no other pixel of the input changes
\* it; and the halftone algorithm of process_image runs that ditherer.
C8_HalftoneIsPositional ==
  /\ (im_stage = "bilevel" /\ im_call.dither = "dither_halftone" =>
        \A other \in RastersOf(im_gray.w, im_gray.h) :
          \A y \in 1..im_gray.h : \A x \in 1..im_gray.w :
            other.px[y][x] = im_gray.px[y][x]
              => dither_halftone(other).px[y][x] = im_bilevel.px[y][x])
  /\ (im_call.algorithm = "algo-halftone" => im_call.dither = "dither_halftone")

IsHttpUrl(url) ==
  \/ (Len(url) >= 7 /\ SubSeq(url, 1, 7) = <<"h", "t", "t", "p", ":", "/", "/">>)
  \/ (Len(url) >= 8 /\ SubSeq(url, 1, 8) = <<"h", "t", "t", "p", "s", ":", "/", "/">>)

C7_OnlyHttpSchemesReachRequest ==
  ~IsHttpUrl(dl_url) =>
    /\ ~dl_trace.requested
    /\ dl_pc # "request"
    /\ (dl_pc = "done" => dl_result = Raised("URL must start with http/https"))

\* C9 as stated: for T <= 0 resize_image fails in its own validation, before
\* the height is computed or the resampling is attempted.
C9_RejectsBeforeComputing ==
  rs_target_width <= 0 => rs_pc \in {"start", "rejected"}

\* C10: a failure while rendering or printing is reported and the loop goes
\* on with the next prompt, the font size and the padding unchanged; only a
\* quit or a keyboard interrupt ends the loop.
C10_LoopSurvivesFailures ==
  /\ [][(mn_pc \in {"render", "print"} /\ mn_event' \in {"render_failed", "print_failed"})
          => /\ mn_pc' = "prompt"
             /\ current_font_size' = current_font_size
             /\ current_padding' = current_padding
             /\ mn_message' \in {"Error: Pillow not installed",
                                 "Error rendering/printing",
                                 "Error during printing"}]_vars
  /\ [](mn_pc = "ended" => mn_event \in {"quit", "interrupt"})

\* C10 witness: printing failed after the font size and the padding had been
\* changed, and the loop is back at the prompt with both kept.
C10_Witness ==
  /\ mn_pc = "prompt" /\ mn_event = "print_failed"
  /\ current_font_size = 48 /\ current_padding = 10
  /\ mn_message = "Error rendering/printing"

=============================================================================
